---- MODULE Spec2Model ----
(***************************************************************************)
(* pip show: ShowCommand.run, the generator search_packages_info and its   *)
(* consumer print_results (src/src/pip/_internal/commands/show.py).        *)
(*                                                                         *)
(* A str is a sequence of one-character strings, so that lower(),          *)
(* canonicalize_name and pkg_resources' safe_name are computed character   *)
(* by character.  A requirement is [name, specifier]; a distribution is    *)
(* [name, version, requires, extras, metadata, file_list].                 *)
(***************************************************************************)
EXTENDS Integers, Sequences, FiniteSets, TLC

\* ------------------------------------------------------------------ bounds
MaxDists == 2
MaxQuery == 2

\* ------------------------------------------------------------ str helpers
Seps == {"-", "_", "."}

\* ord() of the characters of the alphabet (ASCII), for sorted() on str
Ord(c) ==
    CASE c = "-" -> 45 [] c = "." -> 46
      [] c = "A" -> 65 [] c = "B" -> 66 [] c = "C" -> 67
      [] c = "_" -> 95
      [] c = "a" -> 97 [] c = "b" -> 98 [] c = "c" -> 99 [] c = "d" -> 100
      [] OTHER -> 0

\* one character of str.lower()
LowerChar(c) ==
    CASE c = "A" -> "a" [] c = "B" -> "b" [] c = "C" -> "c" [] OTHER -> c

\* str.lower()
Lower(s) == [i \in 1..Len(s) |-> LowerChar(s[i])]

\* re.sub(r"[cls]+", "-", s): every maximal run of characters of cls
\* becomes one "-"
RECURSIVE SubRuns(_, _, _)
SubRuns(cls, s, inrun) ==
    IF s = <<>> THEN <<>>
    ELSE IF Head(s) \in cls
         THEN (IF inrun THEN <<>> ELSE <<"-">>) \o SubRuns(cls, Tail(s), TRUE)
         ELSE <<Head(s)>> \o SubRuns(cls, Tail(s), FALSE)

\* packaging.utils.canonicalize_name: re.sub(r"[-_.]+", "-", name).lower()
canonicalize_name(name) == Lower(SubRuns(Seps, name, FALSE))

\* pkg_resources.safe_name: re.sub('[^A-Za-z0-9.]+', '-', name); of the
\* alphabet only "-" and "_" are outside [A-Za-z0-9.]
safe_name(name) == SubRuns({"-", "_"}, name, FALSE)

\* Distribution.project_name and Requirement.project_name
project_name(name) == safe_name(name)

\* Distribution.key and Requirement.key: project_name.lower()
key(name) == Lower(project_name(name))

\* str < str (lexicographic on ord)
RECURSIVE StrLess(_, _)
StrLess(s, t) ==
    IF t = <<>> THEN FALSE
    ELSE IF s = <<>> THEN TRUE
    ELSE IF Ord(Head(s)) # Ord(Head(t)) THEN Ord(Head(s)) < Ord(Head(t))
    ELSE StrLess(Tail(s), Tail(t))

\* sorted(list of str)
RECURSIVE InsertSorted(_, _)
InsertSorted(x, ss) ==
    IF ss = <<>> THEN <<x>>
    ELSE IF StrLess(x, Head(ss)) THEN <<x>> \o ss
    ELSE <<Head(ss)>> \o InsertSorted(x, Tail(ss))

RECURSIVE sorted(_)
sorted(ss) ==
    IF ss = <<>> THEN <<>> ELSE InsertSorted(ss[Len(ss)], sorted(SubSeq(ss, 1, Len(ss) - 1)))

\* the concatenation of a sequence of sequences
RECURSIVE Flatten(_)
Flatten(ss) == IF ss = <<>> THEN <<>> ELSE Head(ss) \o Flatten(Tail(ss))

Range(s) == {s[i] : i \in 1..Len(s)}

\* ------------------------------------------------------- pkg_resources API
\* Requirement.__eq__ / __hash__: hashCmp = (key, specifier, ...)
ReqId(r) == <<key(r.name), r.specifier>>

\* Distribution.requires(): the unconditional requirements (dm[None])
requires(p) == p.requires

\* Distribution.requires([e]): dm[None] + dm[e]
requires_extra(p, e) ==
    p.requires \o Flatten([i \in 1..Len(p.extras) |->
        IF p.extras[i].extra = e THEN p.extras[i].reqs ELSE <<>>])

\* Distribution.extras: the names of the extras, in declaration order
extras_of(p) == [i \in 1..Len(p.extras) |-> p.extras[i].extra]

\* pkg_resources.get_distribution(name).version over the working set, or
\* "-" on DistributionNotFound
installed_version(ws, name) ==
    LET hit == {i \in 1..Len(ws) : key(ws[i].name) = key(name)}
    IN  IF hit = {} THEN "-" ELSE ws[CHOOSE i \in hit : TRUE].version

\* _format_package(requirement): "%s [%s]" % (r, installed_ver)
format_package(ws, r) ==
    [req |-> r, installed_ver |-> installed_version(ws, project_name(r.name))]

\* --------------------------------------------- search_packages_info, pure
\* a dict as a sequence of [k, v] items in insertion order: d[k] = v
DictSet(d, k, v) ==
    IF \E i \in 1..Len(d) : d[i].k = k
    THEN [i \in 1..Len(d) |-> IF d[i].k = k THEN [k |-> k, v |-> v] ELSE d[i]]
    ELSE Append(d, [k |-> k, v |-> v])

DictHas(d, k) == \E i \in 1..Len(d) : d[i].k = k

DictGet(d, k) == d[CHOOSE i \in 1..Len(d) : d[i].k = k].v

\* installed = {}; for p in working_set:
\*     installed[canonicalize_name(p.project_name)] = p
RECURSIVE build_installed(_)
build_installed(ws) ==
    IF ws = <<>> THEN <<>>
    ELSE LET p == ws[Len(ws)]
         IN  DictSet(build_installed(SubSeq(ws, 1, Len(ws) - 1)),
                     canonicalize_name(project_name(p.name)), p)

\* faulty variant of query_names: the query is only lower-cased, separators kept
query_names_lower(q) == [i \in 1..Len(q) |-> Lower(q[i])]

\* query_names = [canonicalize_name(name) for name in query]
query_names(q) == [i \in 1..Len(q) |-> canonicalize_name(q[i])]

\* [name for name, pkg in zip(query, query_names) if pkg not in installed]
RECURSIVE not_installed(_, _)
not_installed(q, inst) ==
    IF q = <<>> THEN <<>>
    ELSE (IF DictHas(inst, query_names(q)[1]) THEN <<>> ELSE <<Head(q)>>)
         \o not_installed(Tail(q), inst)

\* faulty variant of missing_names: the normalized names are reported, not the
\* names as asked for
missing_names_normalized(q, inst) == sorted(query_names(not_installed(q, inst)))

\* missing = sorted([... if pkg not in installed])
missing_names(q, inst) == sorted(not_installed(q, inst))

\* faulty variant of found_distributions: the index is walked, not the query
found_distributions_index_order(qn, inst) ==
    Flatten([i \in 1..Len(inst) |->
        IF inst[i].k \in Range(qn) THEN <<inst[i].v>> ELSE <<>>])

\* distributions = [installed[pkg] for pkg in query_names if pkg in installed]
RECURSIVE found_distributions(_, _)
found_distributions(qn, inst) ==
    IF qn = <<>> THEN <<>>
    ELSE (IF DictHas(inst, Head(qn)) THEN <<DictGet(inst, Head(qn))>> ELSE <<>>)
         \o found_distributions(Tail(qn), inst)

\* next((r for r in reqs if r.key == dist.key), None): <<r>> or <<>> (None)
RECURSIVE first_match(_, _)
first_match(reqs, dist) ==
    IF reqs = <<>> THEN <<>>
    ELSE IF key(Head(reqs).name) = key(dist.name) THEN <<Head(reqs)>>
    ELSE first_match(Tail(reqs), dist)

\* "%s %s" % (p.project_name, r.specifier), or with extra # "":
\* "%s[%s] %s" % (p.project_name, e, r.specifier)
entry(p, e, r) ==
    [dependent |-> project_name(p.name), extra |-> e, specifier |-> r.specifier]

\* the for e in p.extras loop of the else branch: no break, every extra
\* whose requires([e]) matches appends an entry
extras_entries(p, dist) ==
    Flatten([i \in 1..Len(p.extras) |->
        LET e == extras_of(p)[i]
            r == first_match(requires_extra(p, e), dist)
        IN  IF r # <<>> THEN <<entry(p, e, r[1])>> ELSE <<>>])

\* faulty variant of entries_of: the extras are scanned after an unconditional
\* match too (the else is lost)
entries_of_no_else(p, dist) ==
    LET r == first_match(requires(p), dist)
    IN  (IF r # <<>> THEN <<entry(p, "", r[1])>> ELSE <<>>) \o extras_entries(p, dist)

\* the body of for _, p in installed.items() for one p
entries_of(p, dist) ==
    LET r == first_match(requires(p), dist)
    IN  IF r # <<>> THEN <<entry(p, "", r[1])>> ELSE extras_entries(p, dist)

\* required_by after the loop over installed.items()
required_by(inst, dist) ==
    Flatten([i \in 1..Len(inst) |-> entries_of(inst[i].v, dist)])

\* set(reqs): the first of the Requirements that compare equal is kept
as_set(reqs) ==
    {reqs[i] : i \in {j \in 1..Len(reqs) :
        \A h \in 1..(j - 1) : ReqId(reqs[h]) # ReqId(reqs[j])}}

\* reqs = set(dist.requires([e])) - set(dist.requires())
extra_only(dist, e) ==
    {r \in as_set(requires_extra(dist, e)) :
        \A u \in Range(requires(dist)) : ReqId(u) # ReqId(r)}

\* extras = {}; for e in dist.extras: extras[e] = map(_format_package, reqs)
extras_dict(ws, dist) ==
    [e \in Range(extras_of(dist)) |->
        {format_package(ws, r) : r \in extra_only(dist, e)}]

\* the package dict of one distribution, as yielded; files = <<>> stands for
\* the key 'files' not being set (if file_list: ...)
package(ws, inst, dist, pypi_version) ==
    [name |-> project_name(dist.name),
     version |-> dist.version,
     pypi_version |-> pypi_version,
     requires |-> [i \in 1..Len(dist.requires) |-> format_package(ws, dist.requires[i])],
     required_by |-> required_by(inst, dist),
     extras |-> extras_dict(ws, dist),
     files |-> IF dist.file_list # <<>>
               THEN SortSeq(dist.file_list, LAMBDA x, y : x < y) ELSE <<>>]

\* ------------------------------------------------------------- the inputs
Req(n, s) == [name |-> n, specifier |-> s]

Dist(n, rq, ex, md, fl) ==
    [name |-> n, version |-> "1.0", requires |-> rq, extras |-> ex,
     metadata |-> md, file_list |-> fl]

\* Name metadata of the installed distributions: keys a.b, a-b and c, the
\* first two with the same canonical name a-b
DistNames == {<<"a", ".", "b">>, <<"A", "_", "b">>, <<"c">>}

\* the dependency lists (Requires-Dist without marker) of the scan inputs
ReqLists ==
    {<<>>,
     <<Req(<<"a", "-", "b">>, "")>>,
     <<Req(<<"a", ".", "b">>, ">=1")>>,
     <<Req(<<"C">>, ""), Req(<<"a", "-", "b">>, ">=1"), Req(<<"A", "-", "B">>, "")>>}

\* the extras (Requires-Dist with extra == marker) of the scan inputs
ExtraMaps ==
    {<<>>,
     <<[extra |-> "x", reqs |-> <<Req(<<"a", "-", "b">>, "")>>]>>,
     <<[extra |-> "x", reqs |-> <<Req(<<"a", "_", "b">>, ">=1")>>],
       [extra |-> "y", reqs |-> <<Req(<<"a", "-", "b">>, ""), Req(<<"a", ".", "b">>, "")>>]>>}

\* what is asked for on the command line; d is installed nowhere
QueryArgs == {<<"A", ".", "B">>, <<"a", "-", "b">>, <<"C">>, <<"d">>}

\* sequences over S of length lo..hi
SeqsOf(S, lo, hi) == UNION {[1..n -> S] : n \in lo..hi}

\* pkg_resources.working_set holds one distribution per key
DistinctKeys(ws) ==
    \A i, j \in 1..Len(ws) : i # j => key(ws[i].name) # key(ws[j].name)

\* environments for the reverse-dependency scan: any dependency lists and
\* extras, every distribution with its metadata header block and without a
\* file manifest
ScanDists ==
    {Dist(n, rq, ex, TRUE, <<>>) : n \in DistNames, rq \in ReqLists, ex \in ExtraMaps}

\* environments for a batch of queries: the file manifest (RECORD /
\* installed-files.txt, two paths) is there, the metadata header block
\* (METADATA / PKG-INFO) may be absent
BatchDists ==
    {Dist(n, IF n = <<"c">> THEN <<>> ELSE <<Req(<<"c">>, "")>>, <<>>, md, <<2, 1>>) :
        n \in DistNames, md \in BOOLEAN}

\* ---------------------------------------------------------------- the state
VARIABLES
    working_set,    \* pkg_resources.working_set, in iteration order
    query,          \* args of ShowCommand.run
    pypi,           \* options.pypi
    pc,             \* "start", "with", "with_created", "created", "iterating",
                    \* "done", "raised": where run and the generator stand
    session,        \* "none", "open" or "closed": the session the generator holds
    installed,      \* the generator's dict installed
    distributions,  \* the generator's list distributions
    idx,            \* index of the next element of distributions
    logged,         \* logger.warning calls
    lookups,        \* pypi.package_releases calls: [name, session at the call]
    results,        \* the package dicts print_results has received
    status          \* what run returned ("SUCCESS", "ERROR") or raised

vars == <<working_set, query, pypi, pc, session, installed, distributions, idx,
          logged, lookups, results, status>>

InitScan ==
    /\ working_set \in {ws \in SeqsOf(ScanDists, 1, MaxDists) : DistinctKeys(ws)}
    /\ query \in {<<<<"a", "_", "-", "b">>>>, <<<<"C">>>>}
    /\ pypi = FALSE

InitBatch ==
    /\ working_set \in {ws \in SeqsOf(BatchDists, 1, MaxDists) : DistinctKeys(ws)}
    /\ query \in SeqsOf(QueryArgs, 0, MaxQuery)
    /\ pypi \in BOOLEAN

Init ==
    /\ InitScan \/ InitBatch
    /\ pc = "start"
    /\ session = "none"
    /\ installed = <<>>
    /\ distributions = <<>>
    /\ idx = 1
    /\ logged = <<>>
    /\ lookups = <<>>
    /\ results = <<>>
    /\ status = "none"

\* ------------------------------------------------------------- ShowCommand
\* run: if not args: warning, return ERROR
RunNoArgs ==
    /\ pc = "start"
    /\ query = <<>>
    /\ logged' = Append(logged, [msg |-> "ERROR: Please provide a package name or names.", names |-> <<>>])
    /\ status' = "ERROR"
    /\ pc' = "done"
    /\ UNCHANGED <<working_set, query, pypi, session, installed, distributions,
                   idx, lookups, results>>

\* if options.pypi: with self.get_default_session(options) as session:
RunEnterWith ==
    /\ pc = "start"
    /\ query # <<>>
    /\ pypi
    /\ session' = "open"
    /\ pc' = "with"
    /\ UNCHANGED <<working_set, query, pypi, installed, distributions, idx,
                   logged, lookups, results, status>>

\* results = search_packages_info(query, options.index, session) inside the
\* with block: calling a generator function runs none of its body
RunCreateInWith ==
    /\ pc = "with"
    /\ pc' = "with_created"
    /\ UNCHANGED <<working_set, query, pypi, session, installed, distributions,
                   idx, logged, lookups, results, status>>

\* the with block is left: session.close(); the generator keeps the session
RunExitWith ==
    /\ pc = "with_created"
    /\ session' = "closed"
    /\ pc' = "created"
    /\ UNCHANGED <<working_set, query, pypi, installed, distributions, idx,
                   logged, lookups, results, status>>

\* else: results = search_packages_info(query, options.index)
RunCreate ==
    /\ pc = "start"
    /\ query # <<>>
    /\ ~pypi
    /\ pc' = "created"
    /\ UNCHANGED <<working_set, query, pypi, session, installed, distributions,
                   idx, logged, lookups, results, status>>

\* the first next() of print_results' for loop: the generator body up to
\* the for dist in distributions loop
Prelude ==
    /\ pc = "created"
    /\ installed' = build_installed(working_set)
    /\ distributions' = found_distributions(query_names(query), installed')
    /\ logged' = LET missing == missing_names(query, installed')
                 IN  IF missing # <<>>
                     THEN Append(logged, [msg |-> "Package(s) not found: %s", names |-> missing])
                     ELSE logged
    /\ idx' = 1
    /\ pc' = "iterating"
    /\ UNCHANGED <<working_set, query, pypi, session, lookups, results, status>>

\* if session: pypi.package_releases(dist.project_name) is called
lookup_log(dist) ==
    IF session # "none"
    THEN Append(lookups, [name |-> project_name(dist.name), session |-> session])
    ELSE lookups

\* one iteration of for dist in distributions that reaches yield package;
\* releases is what package_releases returned: <<>> or a list of versions
Yield(releases) ==
    /\ pc = "iterating"
    /\ idx <= Len(distributions)
    /\ LET dist == distributions[idx]
           pypi_version == IF session # "none"
                           THEN (IF releases # <<>> THEN releases[1] ELSE "UNKNOWN")
                           ELSE "None"
       IN  /\ session = "none" => releases = <<>>
           /\ dist.metadata
           /\ lookups' = lookup_log(dist)
           /\ results' = Append(results, package(working_set, installed, dist, pypi_version))
    /\ idx' = idx + 1
    /\ UNCHANGED <<working_set, query, pypi, pc, session, installed, distributions,
                   logged, status>>

\* pypi.package_releases raises (transport error, timeout, malformed
\* response): nothing catches it, the generator and run end with it
LookupRaises ==
    /\ pc = "iterating"
    /\ idx <= Len(distributions)
    /\ session # "none"
    /\ lookups' = lookup_log(distributions[idx])
    /\ status' = "xmlrpc error"
    /\ pc' = "raised"
    /\ UNCHANGED <<working_set, query, pypi, session, installed, distributions,
                   idx, logged, results>>

\* metadata is None (no METADATA / PKG-INFO): feed_parser.feed(metadata)
\* raises TypeError after the lookup, if any, returned
MetadataRaises ==
    /\ pc = "iterating"
    /\ idx <= Len(distributions)
    /\ ~distributions[idx].metadata
    /\ lookups' = lookup_log(distributions[idx])
    /\ status' = "TypeError"
    /\ pc' = "raised"
    /\ UNCHANGED <<working_set, query, pypi, session, installed, distributions,
                   idx, logged, results>>

\* the generator is exhausted: print_results returns results_printed and
\* run returns SUCCESS or ERROR
Finish ==
    /\ pc = "iterating"
    /\ idx > Len(distributions)
    /\ status' = IF Len(results) > 0 THEN "SUCCESS" ELSE "ERROR"
    /\ pc' = "done"
    /\ UNCHANGED <<working_set, query, pypi, session, installed, distributions,
                   idx, logged, lookups, results>>

Next ==
    \/ RunNoArgs
    \/ RunEnterWith
    \/ RunCreateInWith
    \/ RunExitWith
    \/ RunCreate
    \/ Prelude
    \/ \E releases \in {<<>>, <<"2.0", "1.0">>} : Yield(releases)
    \/ LookupRaises
    \/ MetadataRaises
    \/ Finish

Spec == Init /\ [][Next]_vars

\* ------------------------------------------------- vocabulary of the claims
NotFoundMsg == "Package(s) not found: %s"

\* the generator has run its prelude (installed, missing, distributions)
AfterPrelude == pc \in {"iterating", "raised"} \/ (pc = "done" /\ query # <<>>)

\* the normalized names of the installed set
IndexKeys ==
    {canonicalize_name(working_set[i].name) : i \in 1..Len(working_set)}

IsInstalled(q) == canonicalize_name(q) \in IndexKeys

\* the installed distribution a name stands for: the last one enumerated
\* with that normalized name
EntryFor(q) ==
    LET hit == {i \in 1..Len(working_set) :
                    canonicalize_name(working_set[i].name) = canonicalize_name(q)}
    IN  working_set[CHOOSE i \in hit : \A h \in hit : h <= i]

\* the names the "Package(s) not found" diagnostics carry
NotFoundNames ==
    UNION {Range(logged[i].names) :
              i \in {k \in 1..Len(logged) : logged[k].msg = NotFoundMsg}}

\* the query names that are installed, in query order
FoundQuery == SelectSeq(query, LAMBDA q : IsInstalled(q))

\* s and t differ only in letter case or in which of - _ . separates
DifferOnlyCaseSep(s, t) ==
    /\ Len(s) = Len(t)
    /\ \A k \in 1..Len(s) :
          \/ s[k] \in Seps /\ t[k] \in Seps
          \/ s[k] \notin Seps /\ t[k] \notin Seps /\ LowerChar(s[k]) = LowerChar(t[k])

\* the number of query names up to position i that were not reported missing
FoundUpTo(i) == Cardinality({k \in 1..i : query[k] \notin NotFoundNames})

\* the entries of a record's required_by whose dependent is P
EntriesFor(rec, P) ==
    {j \in 1..Len(rec.required_by) : rec.required_by[j].dependent = P}

Dependents(rec) ==
    {rec.required_by[j].dependent : j \in 1..Len(rec.required_by)}

\* ------------------------------------------------------------------ claims

\* C1: the required_by list built for a target T holds no entry whose
\* dependent is T itself, also when T's metadata requires T.
C1_NoSelfDependent ==
    \A i \in 1..Len(results) :
        \A j \in 1..Len(results[i].required_by) :
            canonicalize_name(results[i].required_by[j].dependent)
                # canonicalize_name(results[i].name)

\* C2: every query name that is not installed is named in the "Package(s)
\* not found" diagnostic and yields no record; the installed query names
\* yield their records in query order, each with the content the
\* distribution has on its own (no record is lost or altered by the missing
\* names: the records are those of the installed names alone).
C2_MissingNamesIsolated ==
    AfterPrelude =>
        /\ \A i \in 1..Len(query) :
              ~IsInstalled(query[i]) =>
                  /\ query[i] \in NotFoundNames
                  /\ \A j \in 1..Len(results) :
                        canonicalize_name(results[j].name) # canonicalize_name(query[i])
        /\ \A n \in NotFoundNames : ~IsInstalled(n)
        /\ Len(results) <= Len(FoundQuery)
        /\ LET index == build_installed(working_set)
           IN  \A j \in 1..Len(results) :
                  results[j] = package(working_set, index, EntryFor(FoundQuery[j]),
                                       results[j].pypi_version)
        /\ pc = "done" => Len(results) = Len(FoundQuery)

\* a run over [d, C] with c installed and d not ended with the record of c
\* and the diagnostic for d
C2_Witness ==
    /\ pc = "done"
    /\ query = <<<<"d">>, <<"C">>>>
    /\ Len(results) = 1
    /\ results[1].name = <<"c">>
    /\ NotFoundNames = {<<"d">>}

\* C3: with remote lookup enabled, a failing lookup leaves the package's
\* record in place with the unknown marker, raises nothing and the other
\* packages' records are produced: a run over distributions that all have
\* their metadata ends normally with one record per found name.
C3_LookupFailureIsolated ==
    (pypi /\ pc \in {"done", "raised"} /\ query # <<>>
          /\ \A i \in 1..Len(distributions) : distributions[i].metadata)
        => pc = "done" /\ Len(results) = Len(distributions)

\* C4: two query names that differ only in letter case or separator resolve
\* to the same installed-index entry: both are reported missing or both
\* stand for the same distribution.
C4_LookupCaseSepInsensitive ==
    AfterPrelude =>
        \A i, j \in 1..Len(query) :
            DifferOnlyCaseSep(query[i], query[j]) =>
                /\ query[i] \in NotFoundNames <=> query[j] \in NotFoundNames
                /\ query[i] \notin NotFoundNames =>
                      /\ FoundUpTo(i) <= Len(distributions)
                      /\ FoundUpTo(j) <= Len(distributions)
                      /\ distributions[FoundUpTo(i)] = distributions[FoundUpTo(j)]
                      /\ distributions[FoundUpTo(i)] = EntryFor(query[i])

\* A.B and a-b were both asked for and both gave the record of a.b
C4_Witness ==
    /\ pc = "done"
    /\ query = <<<<"A", ".", "B">>, <<"a", "-", "b">>>>
    /\ Len(results) = 2
    /\ results[1].name = <<"a", ".", "b">>
    /\ results[2].name = <<"a", ".", "b">>

\* C5: when every query name is installed, the records come in the order of
\* the query list: the i-th record is that of the i-th query name, and a run
\* that ends normally gave one record per query name.
C5_QueryOrderPreserved ==
    (AfterPrelude /\ \A i \in 1..Len(query) : IsInstalled(query[i])) =>
        /\ Len(results) <= Len(query)
        /\ \A i \in 1..Len(results) :
              results[i].name = project_name(EntryFor(query[i]).name)
        /\ pc = "done" => Len(results) = Len(query)

\* query [C, a-b] against the installed set enumerated as a.b, c: the
\* records are c, a.b, neither alphabetical nor in enumeration order
C5_Witness ==
    /\ pc = "done"
    /\ query = <<<<"C">>, <<"a", "-", "b">>>>
    /\ Len(working_set) = 2
    /\ working_set[1].name = <<"a", ".", "b">>
    /\ working_set[2].name = <<"c">>
    /\ Len(results) = 2
    /\ results[1].name = <<"c">>
    /\ results[2].name = <<"a", ".", "b">>

\* C6: no dependency that the package requires unconditionally appears in
\* the extras[e] list of its record, for any extra e.
C6_ExtrasExcludeUnconditional ==
    \A i \in 1..Len(results) :
        \A e \in DOMAIN results[i].extras :
            \A f \in results[i].extras[e] :
                \A u \in Range(distributions[i].requires) :
                    canonicalize_name(f.req.name) # canonicalize_name(u.name)

\* C7: a found package without its metadata header block or without its
\* file manifest still yields its record and raises nothing: without remote
\* lookup every run ends normally with one record per found name.
C7_MetadataAbsentNotFatal ==
    (~pypi /\ pc \in {"done", "raised"} /\ query # <<>>)
        => pc = "done" /\ Len(results) = Len(distributions)

\* C8: every installed package other than the target whose unconditional
\* dependency list holds an entry with the target's normalized name has an
\* entry in the target's required_by list.
C8_DependentsByNormalizedName ==
    \A i \in 1..Len(results) :
        \A k \in 1..Len(installed) :
            LET p == installed[k].v
            IN  (/\ canonicalize_name(p.name) # canonicalize_name(results[i].name)
                 /\ \E r \in Range(p.requires) :
                       canonicalize_name(r.name) = canonicalize_name(results[i].name))
                => project_name(p.name) \in Dependents(results[i])

\* C9 as stated: a target's required_by list holds at most one entry for
\* any installed package (read here for the packages other than the target:
\* entries of the target itself are the matter of C1).
C9_AtMostOneEntryPerPackage ==
    \A i \in 1..Len(results) :
        \A P \in Dependents(results[i]) \ {results[i].name} :
            Cardinality(EntriesFor(results[i], P)) <= 1

\* C9 amended: a target's required_by list holds, for any installed package
\* p, at most one plain entry and at most one entry per extra of p, and a
\* plain entry for p (an unconditional match) excludes every p[extra] entry.
C9_FirstMatchPerPackage ==
    \A i \in 1..Len(results) :
        LET rb == results[i].required_by
        IN  \A P \in Dependents(results[i]) :
                /\ \A j, h \in EntriesFor(results[i], P) :
                      rb[j].extra = rb[h].extra => j = h
                /\ (\E j \in EntriesFor(results[i], P) : rb[j].extra = "")
                      => Cardinality(EntriesFor(results[i], P)) = 1

\* c requires a-b unconditionally and again under its extras x and y: the
\* record of A-b lists c once, in the plain form
C9_Witness ==
    \E i \in 1..Len(results) :
        /\ results[i].name = <<"A", "-", "b">>
        /\ \E k \in 1..Len(installed) :
              /\ installed[k].v.name = <<"c">>
              /\ Len(installed[k].v.extras) = 2
              /\ first_match(installed[k].v.requires, distributions[i]) # <<>>
        /\ EntriesFor(results[i], <<"c">>) # {}
        /\ \A j \in EntriesFor(results[i], <<"c">>) :
              results[i].required_by[j].extra = ""

\* C10: every remote version lookup is made while the session of the
\* command is open.
C10_LookupsWhileSessionOpen ==
    \A i \in 1..Len(lookups) : lookups[i].session = "open"

====
